---- MODULE Spec2Model ----
EXTENDS Integers, Sequences, FiniteSets, TLC

(***************************************************************************)
(* A model of redditCRUD: RedditManager (the facade over the praw client)  *)
(* and app.py (the Streamlit script, re-executed top to bottom on every    *)
(* user interaction).  The remote service is a store of posts keyed by id; *)
(* every call on the remote client is one step that may raise.             *)
(***************************************************************************)

\* ---------------------------------------------------------------- bounds
MaxPosts == 3
MaxLimit == 2

\* ------------------------------------------------------------ vocabulary
Ids == 1..MaxPosts
Titles == {"Hello", "Other"}
Contents == {"Hi there", "Edited"}
Subreddits == {"test"}
ValidTypes == {"text", "link", "image"}
PostTypes == ValidTypes \cup {"video"}
EnvValues == {"unset", "empty", "set"}
Me == "me"
Stranger == "stranger"

\* The value of a call: a tag and, under the tag, the value itself.
None == [tag |-> "None", val |-> 0]
PyBool(x) == [tag |-> "bool", val |-> x]
PyStr(x) == [tag |-> "id", val |-> x]
PyDict(x) == [tag |-> "dict", val |-> x]
PyList(x) == [tag |-> "list", val |-> x]

\* --------------------------------------------- RedditManager.__init__
required_vars ==
    <<"REDDIT_CLIENT_ID", "REDDIT_CLIENT_SECRET", "REDDIT_USERNAME",
      "REDDIT_PASSWORD", "REDDIT_USER_AGENT">>

\* os.getenv(var) is falsy when the variable is unset or set to "".
Getenv(e, var) == IF e[var] = "unset" THEN "None" ELSE IF e[var] = "empty" THEN "" ELSE "value"

\* Variant: only an unset variable counts as missing.
NotGetenv_unset_only(e, var) == Getenv(e, var) = "None"
\* `not os.getenv(var)`
NotGetenv(e, var) == Getenv(e, var) \in {"None", ""}

missing_vars(e) == SelectSeq(required_vars, LAMBDA var : NotGetenv(e, var))

\* The constructor's outcome: the ValueError with the joined names, or the
\* instance holding the praw session.
RedditManager__init__(e) ==
    IF missing_vars(e) # <<>>
    THEN [state |-> "raised", exc |-> "ValueError", message |-> missing_vars(e),
          session |-> FALSE]
    ELSE [state |-> "ok", exc |-> "", message |-> <<>>, session |-> TRUE]

\* ------------------------------------------------- the remote service
\* A call on the remote client: the method, its string arguments and its
\* numeric argument (a post id or a limit; 0 when it has none).
Call(m, s, n) == [m |-> m, s |-> s, n |-> n]

\* The result of a try block: the backend after it, the value it reached,
\* the calls it made on the remote client and what it raised ("" = nothing).
Body(b, val, calls, raised) == [b |-> b, val |-> val, calls |-> calls, raised |-> raised]

Exceptions == {"ValueError", "NotFound", "Forbidden", "RemoteError"}

\* The submission the service stores for subreddit.submit(title, selftext=..),
\* subreddit.submit(title, url=..) or subreddit.submit_image(title, image_path=..).
NewPost(title, kw, content, id) ==
    [title |-> title,
     selftext |-> IF kw = "selftext" THEN content ELSE "",
     url |-> IF kw = "url" THEN content ELSE "permalink",
     image |-> IF kw = "image_path" THEN content ELSE "",
     author |-> Me,
     created_utc |-> id]

Submit(b, title, kw, content) ==
    [posts |-> b.posts @@ (b.next :> NewPost(title, kw, content, b.next)),
     next |-> b.next + 1]

Edit(b, id, body) == [b EXCEPT !.posts[id].selftext = body]

Delete(b, id) == [b EXCEPT !.posts = [i \in (DOMAIN b.posts) \ {id} |-> b.posts[i]]]

\* Why the service refuses to edit or delete post id for the account, or "".
Refusal(b, id) ==
    IF id \notin DOMAIN b.posts THEN "NotFound"
    ELSE IF b.posts[id].author # Me THEN "Forbidden"
    ELSE ""

Descending == [i \in 1..MaxPosts |-> MaxPosts + 1 - i]

Min(x, y) == IF x <= y THEN x ELSE y

\* user.submissions.new(limit=limit): the account's own posts, newest first,
\* the listing stopping after `limit` of them.
SubmissionsNew(b, limit) ==
    LET own == SelectSeq(Descending,
                         LAMBDA id : id \in DOMAIN b.posts /\ b.posts[id].author = Me)
    IN SubSeq(own, 1, Min(limit, Len(own)))

\* ---------------------------------------------- try / except Exception
\* Variant: no except clause, the exception reaches the caller.
CatchNothing(op, args, fail, body, no_result, what) ==
    [op |-> op, args |-> args, fail |-> fail, b |-> body.b, calls |-> body.calls,
     raised |-> body.raised,
     ret |-> IF body.raised = "" THEN body.val ELSE [tag |-> "unreturned", val |-> 0],
     logs |-> <<>>,
     exc |-> body.raised]
\* A call that an exception left: it returned nothing.
Unreturned == [tag |-> "unreturned", val |-> 0]

\* try: <body> except Exception as e: self.logger.error(f"{what}: {e}");
\* return <no result>.  The except clause runs only for an Exception: it logs
\* and returns the no-result value.  Anything else that was raised leaves the
\* method unlogged and reaches the caller (exc), with nothing returned.
Catch(op, args, fail, body, no_result, what) ==
    [op |-> op, args |-> args, fail |-> fail, b |-> body.b, calls |-> body.calls,
     raised |-> body.raised,
     ret |-> IF body.raised = "" THEN body.val
             ELSE IF body.raised \in Exceptions THEN no_result
             ELSE Unreturned,
     logs |-> IF body.raised \in Exceptions THEN <<<<"error", what, body.raised>>>> ELSE <<>>,
     exc |-> IF body.raised \in Exceptions \cup {""} THEN "" ELSE body.raised]

\* The arguments of a facade call, in one shape for all five operations.
Args(id, subreddit_name, title, content, post_type, limit) ==
    [id |-> id, subreddit_name |-> subreddit_name, title |-> title,
     content |-> content, post_type |-> post_type, limit |-> limit]

\* ------------------------------------------ RedditManager.create_post
\* Variant: every post type submitted as a text post.
Keyword_all_selftext(post_type) == "selftext"
\* The keyword the content travels under for each post type.
Keyword(post_type) ==
    IF post_type = "text" THEN "selftext"
    ELSE IF post_type = "link" THEN "url"
    ELSE "image_path"

create_post_body(b, subreddit_name, title, content, post_type, fail) ==
    LET lookup == <<Call("subreddit", <<subreddit_name>>, 0)>>
        submit == Call(IF post_type = "image" THEN "submit_image" ELSE "submit",
                       <<title, Keyword(post_type), content>>, 0)
    IN IF fail = 1 THEN Body(b, None, lookup, "RemoteError")
       ELSE IF post_type \in ValidTypes
       THEN IF fail = 2
            THEN Body(b, None, Append(lookup, submit), "RemoteError")
            ELSE Body(Submit(b, title, Keyword(post_type), content), PyStr(b.next),
                      Append(lookup, submit), "")
       ELSE Body(b, None, lookup, "ValueError")

create_post(b, subreddit_name, title, content, post_type, fail) ==
    Catch("create_post", Args(0, subreddit_name, title, content, post_type, 0), fail,
          create_post_body(b, subreddit_name, title, content, post_type, fail),
          None, "Error creating post")

\* -------------------------------------------- RedditManager.read_post
\* datetime.fromtimestamp(ts)
FromTimestamp(ts) == <<"datetime", ts>>

\* Variant: content taken from post.url.
post_data_url_as_content(post, post_id) ==
    [id |-> post_id, title |-> post.title, content |-> post.url, score |-> 1,
     url |-> post.url, created_utc |-> FromTimestamp(post.created_utc),
     author |-> post.author, num_comments |-> 0]
post_data(post, post_id) ==
    [id |-> post_id, title |-> post.title, content |-> post.selftext, score |-> 1,
     url |-> post.url, created_utc |-> FromTimestamp(post.created_utc),
     author |-> post.author, num_comments |-> 0]

read_post_body(b, post_id, fail) ==
    LET lookup == <<Call("submission", <<>>, post_id)>>
        fetch == Append(lookup, Call("fetch", <<>>, post_id))
    IN IF fail = 1 THEN Body(b, None, lookup, "RemoteError")
       ELSE IF fail = 2 THEN Body(b, None, fetch, "RemoteError")
       ELSE IF post_id \notin DOMAIN b.posts THEN Body(b, None, fetch, "NotFound")
       ELSE Body(b, PyDict(post_data(b.posts[post_id], post_id)), fetch, "")

read_post(b, post_id, fail) ==
    Catch("read_post", Args(post_id, "", "", "", "", 0), fail,
          read_post_body(b, post_id, fail), None, "Error reading post")

\* ------------------------------------------ RedditManager.update_post
update_post_body(b, post_id, new_content, fail) ==
    LET lookup == <<Call("submission", <<>>, post_id)>>
        edit == Append(lookup, Call("edit", <<new_content>>, post_id))
    IN IF fail = 1 THEN Body(b, PyBool(FALSE), lookup, "RemoteError")
       ELSE IF fail = 2 THEN Body(b, PyBool(FALSE), edit, "RemoteError")
       ELSE IF Refusal(b, post_id) # "" THEN Body(b, PyBool(FALSE), edit, Refusal(b, post_id))
       ELSE Body(Edit(b, post_id, new_content), PyBool(TRUE), edit, "")

update_post(b, post_id, new_content, fail) ==
    Catch("update_post", Args(post_id, "", "", new_content, "", 0), fail,
          update_post_body(b, post_id, new_content, fail),
          PyBool(FALSE), "Error updating post")

\* ------------------------------------------ RedditManager.delete_post
delete_post_body(b, post_id, fail) ==
    LET lookup == <<Call("submission", <<>>, post_id)>>
        delete == Append(lookup, Call("delete", <<>>, post_id))
    IN IF fail = 1 THEN Body(b, PyBool(FALSE), lookup, "RemoteError")
       ELSE IF fail = 2 THEN Body(b, PyBool(FALSE), delete, "RemoteError")
       ELSE IF Refusal(b, post_id) # "" THEN Body(b, PyBool(FALSE), delete, Refusal(b, post_id))
       ELSE Body(Delete(b, post_id), PyBool(TRUE), delete, "")

delete_post(b, post_id, fail) ==
    Catch("delete_post", Args(post_id, "", "", "", "", 0), fail,
          delete_post_body(b, post_id, fail), PyBool(FALSE), "Error deleting post")

\* ------------------------------------- RedditManager.get_recent_posts
\* Variant: the listing reversed.
posts_data_reversed(b, recent_posts) ==
    [i \in 1..Len(recent_posts) |->
        [title |-> b.posts[recent_posts[Len(recent_posts) + 1 - i]].title,
         id |-> recent_posts[Len(recent_posts) + 1 - i]]]
\* [{'title': post.title, 'id': post.id} for post in recent_posts]
posts_data(b, recent_posts) ==
    [i \in 1..Len(recent_posts) |->
        [title |-> b.posts[recent_posts[i]].title, id |-> recent_posts[i]]]

get_recent_posts_body(b, limit, fail) ==
    LET me == <<Call("user.me", <<>>, 0)>>
        new == Append(me, Call("submissions.new", <<>>, limit))
    IN IF fail = 1 THEN Body(b, PyList(<<>>), me, "RemoteError")
       ELSE IF fail = 2 THEN Body(b, PyList(<<>>), new, "RemoteError")
       ELSE Body(b, PyList(posts_data(b, SubmissionsNew(b, limit))), new, "")

get_recent_posts(b, limit, fail) ==
    Catch("get_recent_posts", Args(0, "", "", "", "", limit), fail,
          get_recent_posts_body(b, limit, fail),
          PyList(<<>>), "Error fetching user's recent posts")

\* What the caller of a facade operation observes of it.
Observed(o) ==
    [op |-> o.op, args |-> o.args, fail |-> o.fail, calls |-> o.calls,
     raised |-> o.raised, ret |-> o.ret, logs |-> o.logs, exc |-> o.exc]

\* Python truthiness of a returned value.
Truthy(v) ==
    IF v.tag = "None" THEN FALSE
    ELSE IF v.tag = "bool" THEN v.val
    ELSE IF v.tag = "list" THEN v.val # <<>>
    ELSE TRUE

\* ------------------------------------------------------------- app.py
DropdownLimit == 10

Widget(kind, text) == <<kind, text>>

ButtonOf(operation) == IF operation = "Read Post" THEN "Fetch Post" ELSE operation

\* The outcome of one pass through a flow of the script.
Run(b, rendered, trace, exc, action, dropdown) ==
    [b |-> b, rendered |-> rendered, trace |-> trace, exc |-> exc, action |-> action,
     dropdown |-> dropdown]

NoDropdown == [shown |-> FALSE, listing |-> <<>>, options |-> <<>>, selected |-> "", post_id |-> None]

\* Variant: a key already present keeps its first value.
DictInsert_keep_first(d, k, v) ==
    IF \E i \in 1..Len(d) : d[i].title = k THEN d
    ELSE Append(d, [title |-> k, id |-> v])
\* d[k] = v on an insertion-ordered dict: a key already present keeps its
\* position and takes the new value.
DictInsert(d, k, v) ==
    IF \E i \in 1..Len(d) : d[i].title = k
    THEN [i \in 1..Len(d) |-> IF d[i].title = k THEN [title |-> k, id |-> v] ELSE d[i]]
    ELSE Append(d, [title |-> k, id |-> v])

RECURSIVE post_titles(_)
\* {post['title']: post['id'] for post in recent_posts}
post_titles(recent_posts) ==
    IF recent_posts = <<>> THEN <<>>
    ELSE LET n == Len(recent_posts)
         IN DictInsert(post_titles(SubSeq(recent_posts, 1, n - 1)),
                       recent_posts[n].title, recent_posts[n].id)

DictGet(d, k) == d[CHOOSE i \in 1..Len(d) : d[i].title = k].id

\* st.selectbox over list(post_titles.keys()), then post_titles[selected_title];
\* `choice` is the position of the option the user has selected.
SelectedPost(o, d, choice) ==
    [o |-> o, exc |-> "", rendered |-> <<Widget("selectbox", "Select a Post")>>,
     dropdown |-> [shown |-> TRUE, listing |-> o.ret.val,
                   options |-> [i \in 1..Len(d) |-> d[i].title],
                   selected |-> d[choice].title,
                   post_id |-> PyStr(DictGet(d, d[choice].title))]]

Dropdown(o, choice) ==
    IF o.exc # "" THEN [o |-> o, exc |-> o.exc, rendered |-> <<>>, dropdown |-> NoDropdown]
    ELSE IF Truthy(o.ret) THEN SelectedPost(o, post_titles(o.ret.val), choice)
    ELSE [o |-> o, exc |-> "", rendered |-> <<Widget("warning", "No recent posts found.")>>,
          dropdown |-> NoDropdown]

\* get_recent_posts_dropdown(): the facade call, what it renders and the id
\* it returns.
get_recent_posts_dropdown(b, choice, fail) ==
    Dropdown(get_recent_posts(b, DropdownLimit, fail), choice)

OptionCount(d) == IF d = <<>> THEN 1 ELSE Len(d)

\* The selection is one of the options the dropdown offers.
Selectable(b, choice, fail) ==
    choice <= OptionCount(post_titles(get_recent_posts(b, DropdownLimit, fail).ret.val))

\* The widgets a flow renders up to its button; the button is reached only
\* when the dropdown returned an id (`post_id and st.button(..)`).
FlowWidgets(header, d, inputs, button) ==
    ((<<Widget("header", header)>> \o d.rendered) \o inputs) \o
    (IF Truthy(d.dropdown.post_id) THEN <<Widget("button", button)>> ELSE <<>>)

\* ---- Create Post
CreateWidgets ==
    <<Widget("header", "Create a New Reddit Post"),
      Widget("text_input", "Subreddit Name (without 'r/')"),
      Widget("text_input", "Post Title"),
      Widget("text_area", "Post Content"),
      Widget("selectbox", "Post Type"),
      Widget("button", "Create Post")>>

CreateClicked(o) ==
    IF o.exc # "" THEN Run(o.b, CreateWidgets, <<o>>, o.exc, "Create Post", NoDropdown)
    ELSE IF Truthy(o.ret)
    THEN Run(o.b, CreateWidgets \o <<Widget("success", "Post created successfully! Post ID"),
                                     Widget("markdown", "View Post on Reddit")>>,
             <<o>>, "", "Create Post", NoDropdown)
    ELSE Run(o.b, Append(CreateWidgets, Widget("error", "Failed to create the post.")),
             <<o>>, "", "Create Post", NoDropdown)

CreateFlow(defined, b, form, clicked, fails) ==
    IF ~clicked THEN Run(b, CreateWidgets, <<>>, "", "", NoDropdown)
    ELSE IF ~defined THEN Run(b, CreateWidgets, <<>>, "NameError", "Create Post", NoDropdown)
    ELSE CreateClicked(create_post(b, form.subreddit_name, form.title, form.content,
                                   form.post_type, fails[1]))

\* ---- Read Post
ReadClicked(d, widgets, o) ==
    IF o.exc # "" THEN Run(o.b, widgets, <<d.o, o>>, o.exc, "Fetch Post", d.dropdown)
    ELSE IF Truthy(o.ret)
    THEN Run(o.b, widgets \o <<Widget("write", "Post details:"), Widget("write", "post_data")>>,
             <<d.o, o>>, "", "Fetch Post", d.dropdown)
    ELSE Run(o.b, Append(widgets, Widget("error", "Failed to fetch the post.")),
             <<d.o, o>>, "", "Fetch Post", d.dropdown)

ReadSelected(d, widgets, clicked, fails) ==
    IF d.exc # "" THEN Run(d.o.b, <<widgets[1]>>, <<d.o>>, d.exc, "", NoDropdown)
    ELSE IF ~(Truthy(d.dropdown.post_id) /\ clicked)
    THEN Run(d.o.b, widgets, <<d.o>>, "", "", d.dropdown)
    ELSE ReadClicked(d, widgets, read_post(d.o.b, d.dropdown.post_id.val, fails[2]))

ReadDropdown(d, clicked, fails) ==
    ReadSelected(d, FlowWidgets("Read a Reddit Post", d, <<>>, "Fetch Post"), clicked, fails)

ReadFlow(defined, b, choice, clicked, fails) ==
    IF ~defined
    THEN Run(b, <<Widget("header", "Read a Reddit Post")>>, <<>>, "NameError", "", NoDropdown)
    ELSE ReadDropdown(get_recent_posts_dropdown(b, choice, fails[1]), clicked, fails)

\* ---- Update Post
\* post_data = reddit_manager.read_post(post_id); post_data.get('subreddit', 'unknown')
UpdateReadBack(d, done, u, r) ==
    IF r.exc # "" THEN Run(r.b, done, <<d.o, u, r>>, r.exc, "Update Post", d.dropdown)
    ELSE IF r.ret.tag # "dict"
    THEN Run(r.b, done, <<d.o, u, r>>, "AttributeError", "Update Post", d.dropdown)
    ELSE Run(r.b, Append(done, Widget("markdown", "View Updated Post on Reddit")),
             <<d.o, u, r>>, "", "Update Post", d.dropdown)

\* Variant: the post is read back whatever update_post returned.
UpdateClicked_reads_back_always(d, widgets, u, fails) ==
    UpdateReadBack(d, Append(widgets, Widget("success", "Post updated successfully!")), u,
                   read_post(u.b, d.dropdown.post_id.val, fails[3]))
UpdateClicked(d, widgets, u, fails) ==
    IF u.exc # "" THEN Run(u.b, widgets, <<d.o, u>>, u.exc, "Update Post", d.dropdown)
    ELSE IF ~Truthy(u.ret)
    THEN Run(u.b, Append(widgets, Widget("error", "Failed to update the post.")),
             <<d.o, u>>, "", "Update Post", d.dropdown)
    ELSE UpdateReadBack(d, Append(widgets, Widget("success", "Post updated successfully!")), u,
                        read_post(u.b, d.dropdown.post_id.val, fails[3]))

UpdateSelected(d, widgets, form, clicked, fails) ==
    IF d.exc # "" THEN Run(d.o.b, <<widgets[1]>>, <<d.o>>, d.exc, "", NoDropdown)
    ELSE IF ~(Truthy(d.dropdown.post_id) /\ clicked)
    THEN Run(d.o.b, widgets, <<d.o>>, "", "", d.dropdown)
    ELSE UpdateClicked(d, widgets,
                       update_post(d.o.b, d.dropdown.post_id.val, form.content, fails[2]),
                       fails)

UpdateDropdown(d, form, clicked, fails) ==
    UpdateSelected(d, FlowWidgets("Update an Existing Reddit Post", d,
                                  <<Widget("text_area", "New Content")>>, "Update Post"),
                   form, clicked, fails)

UpdateFlow(defined, b, form, choice, clicked, fails) ==
    IF ~defined
    THEN Run(b, <<Widget("header", "Update an Existing Reddit Post")>>, <<>>, "NameError", "",
             NoDropdown)
    ELSE UpdateDropdown(get_recent_posts_dropdown(b, choice, fails[1]), form, clicked, fails)

\* ---- Delete Post
DeleteClicked(d, widgets, o) ==
    IF o.exc # "" THEN Run(o.b, widgets, <<d.o, o>>, o.exc, "Delete Post", d.dropdown)
    ELSE IF Truthy(o.ret)
    THEN Run(o.b, widgets \o <<Widget("success", "Post deleted successfully!"),
                               Widget("info", "Note: The post has been deleted")>>,
             <<d.o, o>>, "", "Delete Post", d.dropdown)
    ELSE Run(o.b, Append(widgets, Widget("error", "Failed to delete the post.")),
             <<d.o, o>>, "", "Delete Post", d.dropdown)

DeleteSelected(d, widgets, clicked, fails) ==
    IF d.exc # "" THEN Run(d.o.b, <<widgets[1]>>, <<d.o>>, d.exc, "", NoDropdown)
    ELSE IF ~(Truthy(d.dropdown.post_id) /\ clicked)
    THEN Run(d.o.b, widgets, <<d.o>>, "", "", d.dropdown)
    ELSE DeleteClicked(d, widgets, delete_post(d.o.b, d.dropdown.post_id.val, fails[2]))

DeleteDropdown(d, clicked, fails) ==
    DeleteSelected(d, FlowWidgets("Delete a Reddit Post", d, <<>>, "Delete Post"), clicked, fails)

DeleteFlow(defined, b, choice, clicked, fails) ==
    IF ~defined
    THEN Run(b, <<Widget("header", "Delete a Reddit Post")>>, <<>>, "NameError", "", NoDropdown)
    ELSE DeleteDropdown(get_recent_posts_dropdown(b, choice, fails[1]), clicked, fails)

\* ---- the script
Observe(trace) == [i \in 1..Len(trace) |-> Observed(trace[i])]

\* try: reddit_manager = RedditManager() except Exception as e: st.error(..),
\* then the two sidebar selectors.
Top(m) ==
    (IF m.state = "ok" THEN <<>>
     ELSE <<Widget("error", "Failed to initialize RedditManager")>>)
    \o <<Widget("selectbox", "Select Social Media Platform"),
         Widget("selectbox", "Select Operation")>>

Page(m, platform, operation, flow) ==
    [b |-> flow.b,
     trace |-> Observe(flow.trace),
     page |-> [ran |-> TRUE, init |-> m.state, message |-> m.message,
               platform |-> platform, operation |-> operation,
               rendered |-> Top(m) \o flow.rendered, action |-> flow.action,
               exc |-> flow.exc, dropdown |-> flow.dropdown]]

Flow(defined, b, platform, operation, form, choice, clicked, fails) ==
    IF platform # "Reddit"
    THEN Run(b, <<Widget("write", "integration coming soon!")>>, <<>>, "", "", NoDropdown)
    ELSE IF operation = "Create Post" THEN CreateFlow(defined, b, form, clicked, fails)
    ELSE IF operation = "Read Post" THEN ReadFlow(defined, b, choice, clicked, fails)
    ELSE IF operation = "Update Post" THEN UpdateFlow(defined, b, form, choice, clicked, fails)
    ELSE DeleteFlow(defined, b, choice, clicked, fails)

ScriptWith(m, b, platform, operation, form, choice, clicked, fails) ==
    Page(m, platform, operation,
         Flow(m.state = "ok", b, platform, operation, form, choice, clicked, fails))

\* One execution of the script, top to bottom.
Script(e, b, platform, operation, form, choice, clicked, fails) ==
    ScriptWith(RedditManager__init__(e), b, platform, operation, form, choice, clicked, fails)

\* -------------------------------------------------------------- state
VARIABLES
    env,      \* the process environment: each required variable unset, empty or set
    manager,  \* the RedditManager of the example program (its constructor's outcome)
    reddit,   \* the remote service: the posts it stores and the next id it mints
    last,     \* the facade calls of the latest step, in order, as their caller saw them
    ui,       \* the page the latest execution of the script rendered
    expect    \* per post created through the facade: what its creator submitted

vars == <<env, manager, reddit, last, ui, expect>>

ForeignPost ==
    [title |-> "Hello", selftext |-> "Hi there", url |-> "permalink", image |-> "",
     author |-> Stranger, created_utc |-> 1]

NoPage ==
    [ran |-> FALSE, init |-> "none", message |-> <<>>, platform |-> "", operation |-> "",
     rendered |-> <<>>, action |-> "", exc |-> "", dropdown |-> NoDropdown]

\* What the creator of a text post knows of it after facade call o: the
\* title and body submitted, the body of the last successful update and
\* whether there was one; once a delete has succeeded, only that it is gone.
Remember(x, o) ==
    IF o.op = "create_post" /\ o.ret.tag = "id" /\ o.args.post_type = "text"
    THEN x @@ (o.ret.val :> [title |-> o.args.title, content |-> o.args.content,
                             updated |-> FALSE, live |-> TRUE])
    ELSE IF o.op = "update_post" /\ Truthy(o.ret) /\ o.args.id \in DOMAIN x
    THEN [x EXCEPT ![o.args.id].content = o.args.content, ![o.args.id].updated = TRUE]
    ELSE IF o.op = "delete_post" /\ Truthy(o.ret) /\ o.args.id \in DOMAIN x
    THEN [x EXCEPT ![o.args.id].live = FALSE, ![o.args.id].title = "",
                   ![o.args.id].content = ""]
    ELSE x

Init ==
    /\ env \in [{required_vars[i] : i \in 1..Len(required_vars)} -> EnvValues]
    /\ manager = [state |-> "none", exc |-> "", message |-> <<>>, session |-> FALSE]
    /\ reddit = [posts |-> (1 :> ForeignPost), next |-> 2]
    /\ last = <<>>
    /\ ui = NoPage
    /\ expect = <<>>

\* ------------------------------------------------------------ actions
\* reddit_manager = RedditManager()
Construct ==
    /\ manager.state = "none"
    /\ manager' = RedditManager__init__(env)
    /\ last' = <<>>
    /\ UNCHANGED <<env, reddit, ui, expect>>

\* The effect of one facade call made on the constructed manager.
Facade(o) ==
    /\ manager.state = "ok"
    /\ reddit' = o.b
    /\ last' = <<Observed(o)>>
    /\ expect' = Remember(expect, Observed(o))
    /\ UNCHANGED <<env, manager, ui>>

CreatePost(subreddit_name, title, content, post_type, fail) ==
    /\ reddit.next <= MaxPosts
    /\ Facade(create_post(reddit, subreddit_name, title, content, post_type, fail))

ReadPost(post_id, fail) == Facade(read_post(reddit, post_id, fail))

UpdatePost(post_id, new_content, fail) == Facade(update_post(reddit, post_id, new_content, fail))

DeletePost(post_id, fail) == Facade(delete_post(reddit, post_id, fail))

GetRecentPosts(limit, fail) == Facade(get_recent_posts(reddit, limit, fail))

Forms == [subreddit_name : Subreddits, title : Titles, content : Contents, post_type : ValidTypes]

BlankForm == [subreddit_name |-> "", title |-> "", content |-> "", post_type |-> "text"]

Range(s) == {s[i] : i \in 1..Len(s)}

Rendered(run) ==
    /\ reddit' = run.b
    /\ last' = run.trace
    /\ ui' = run.page

\* One execution of app.py.  A button reads as clicked only in the execution
\* its click triggers, so it was on the page rendered before.  A remote
\* failure ends the facade calls of a flow, so at most one is drawn.
AppRun(platform, operation, form, choice, clicked, fails) ==
    /\ fails[1] # 0 => fails[2] = 0 /\ fails[3] = 0
    /\ fails[2] # 0 => fails[3] = 0
    /\ clicked => /\ platform = "Reddit"
                  /\ ui.platform = platform /\ ui.operation = operation
                  /\ Widget("button", ButtonOf(operation)) \in Range(ui.rendered)
    /\ (platform = "Reddit" /\ operation = "Create Post" /\ clicked) => reddit.next <= MaxPosts
    /\ (platform = "Reddit" /\ operation # "Create Post" /\ missing_vars(env) = <<>>)
          => Selectable(reddit, choice, fails[1])
    /\ Rendered(Script(env, reddit, platform, operation, form, choice, clicked, fails))
    /\ UNCHANGED <<env, manager, expect>>

\* The executions by what the sidebar selects.
AppOtherPlatform == AppRun("YouTube", "Create Post", BlankForm, 1, FALSE, <<0, 0, 0>>)

AppCreate(form, clicked, f1) == AppRun("Reddit", "Create Post", form, 1, clicked, <<f1, 0, 0>>)

AppRead(choice, clicked, f1, f2) ==
    AppRun("Reddit", "Read Post", BlankForm, choice, clicked, <<f1, f2, 0>>)

AppUpdate(new_content, choice, clicked, f1, f2, f3) ==
    AppRun("Reddit", "Update Post", [BlankForm EXCEPT !.content = new_content],
           choice, clicked, <<f1, f2, f3>>)

AppDelete(choice, clicked, f1, f2) ==
    AppRun("Reddit", "Delete Post", BlankForm, choice, clicked, <<f1, f2, 0>>)

Fails == 0..2

\* The facade driven directly, on text posts and on an invalid post type.
Next ==
    \/ Construct
    \/ \E s \in Subreddits, t \in Titles, c \in Contents, k \in {"text", "video"}, f \in Fails :
          CreatePost(s, t, c, k, f)
    \/ \E id \in Ids, f \in Fails : ReadPost(id, f)
    \/ \E id \in Ids, c \in Contents, f \in Fails : UpdatePost(id, c, f)
    \/ \E id \in Ids, f \in Fails : DeletePost(id, f)
    \/ \E n \in 0..MaxLimit, f \in Fails : GetRecentPosts(n, f)

Spec == Init /\ [][Next]_vars

\* create_post over every post type, and the posts read back.
NextSubmit ==
    \/ Construct
    \/ \E s \in Subreddits, t \in Titles, c \in Contents, k \in PostTypes, f \in Fails :
          CreatePost(s, t, c, k, f)
    \/ \E id \in Ids, f \in Fails : ReadPost(id, f)

SpecSubmit == Init /\ [][NextSubmit]_vars

\* The form's inputs: any text post; link and image posts of one title and target.
AppForms == {x \in Forms : x.post_type = "text" \/ (x.title = "Hello" /\ x.content = "Hi there")}

\* The Streamlit application: one execution of the script per interaction.
NextApp ==
    \/ AppOtherPlatform
    \/ \E form \in AppForms, clicked \in BOOLEAN, f1 \in Fails : AppCreate(form, clicked, f1)
    \/ \E choice \in Ids, clicked \in BOOLEAN, f1 \in Fails, f2 \in Fails :
          AppRead(choice, clicked, f1, f2)
    \/ \E c \in Contents, choice \in Ids, clicked \in BOOLEAN,
          f1 \in Fails, f2 \in Fails, f3 \in Fails :
          AppUpdate(c, choice, clicked, f1, f2, f3)
    \/ \E choice \in Ids, clicked \in BOOLEAN, f1 \in Fails, f2 \in Fails :
          AppDelete(choice, clicked, f1, f2)

SpecApp == Init /\ [][NextApp]_vars

\* ------------------------------------------------------------- claims
Same(v, w) == v.tag = w.tag /\ v.val = w.val

NoResult(op) ==
    IF op \in {"create_post", "read_post"} THEN None
    ELSE IF op \in {"update_post", "delete_post"} THEN PyBool(FALSE)
    ELSE PyList(<<>>)

Names(s) == {s[i] : i \in 1..Len(s)}

\* C1: constructing RedditManager fails exactly when some required variable
\* is unset or empty; the error then names exactly those variables, each
\* once, and no remote session is created; otherwise construction succeeds
\* with a session.
C1_MissingNamed ==
    manager.state # "none" =>
        LET S == {v \in Names(required_vars) : env[v] \in {"unset", "empty"}}
        IN IF S # {}
           THEN /\ manager.state = "raised"
                /\ manager.exc = "ValueError"
                /\ Names(manager.message) = S
                /\ Len(manager.message) = Cardinality(S)
                /\ ~manager.session
           ELSE manager.state = "ok" /\ manager.session

C1_Witness ==
    /\ manager.state = "raised"
    /\ env["REDDIT_CLIENT_ID"] = "set"
    /\ env["REDDIT_USERNAME"] = "empty"
    /\ env["REDDIT_USER_AGENT"] = "unset"
    /\ Len(manager.message) = 2

\* C2: no facade operation lets an exception reach its caller; when the
\* remote client raised at any step, the operation logged one error carrying
\* the original error and returned its no-result value (None for create_post
\* and read_post, False for update_post and delete_post, [] for
\* get_recent_posts).
C2_NeverPropagates ==
    \A i \in 1..Len(last) :
        /\ last[i].exc = ""
        /\ last[i].raised # "" =>
              /\ Same(last[i].ret, NoResult(last[i].op))
              /\ Len(last[i].logs) = 1
              /\ last[i].logs[1][1] = "error"
              /\ last[i].logs[1][3] = last[i].raised

C2_Witness ==
    /\ Len(last) = 1
    /\ last[1].op = "update_post"
    /\ last[1].raised = "Forbidden"
    /\ Same(last[1].ret, PyBool(FALSE))

\* C3 (as claimed): create_post with a post type outside text/link/image
\* makes no call at all on the remote client and returns None.
C3_NoRemoteCall ==
    \A i \in 1..Len(last) :
        (last[i].op = "create_post" /\ last[i].args.post_type \notin ValidTypes) =>
            /\ last[i].calls = <<>>
            /\ Same(last[i].ret, None)

C7_Call(x, o) ==
    /\ (o.op = "create_post" /\ o.args.post_type = "text") =>
          o.ret.tag = "id" /\ o.ret.val \notin DOMAIN x
    /\ (o.op = "read_post" /\ o.args.id \in DOMAIN x) =>
          IF x[o.args.id].live
          THEN /\ o.ret.tag = "dict"
               /\ o.ret.val.id = o.args.id
               /\ o.ret.val.title = x[o.args.id].title
               /\ o.ret.val.content = x[o.args.id].content
          ELSE Same(o.ret, None)
    /\ (o.op \in {"update_post", "delete_post"} /\ o.args.id \in DOMAIN x
        /\ x[o.args.id].live) => Same(o.ret, PyBool(TRUE))

\* C7: on a text post created through the facade, with no remote failure in
\* the call: create_post returns a fresh id; read_post returns the title
\* submitted and the body last submitted (by create_post or by the last
\* successful update_post); update_post and delete_post of the live post
\* return True; once delete_post has succeeded read_post returns None.
C7_RoundTrip ==
    [][(Len(last') = 1 /\ last'[1].fail = 0) => C7_Call(expect, last'[1])]_vars

C7_Witness ==
    /\ Len(last) = 1
    /\ last[1].op = "read_post"
    /\ last[1].fail = 0
    /\ last[1].args.id \in DOMAIN expect
    /\ ~expect[last[1].args.id].live
    /\ expect[last[1].args.id].updated
    /\ Same(last[1].ret, None)

OwnIds == {id \in DOMAIN reddit.posts : reddit.posts[id].author = Me}

\* C8: get_recent_posts(limit=N), when nothing raised, returns at most N
\* entries; each is the (title, id) of a post of the account; they are in
\* newest-first order with none repeated, and none of the account's posts
\* newer than a listed one is left out: they are the min(N, own) newest.
C8_RecentPosts ==
    (Len(last) = 1 /\ last[1].op = "get_recent_posts" /\ last[1].raised = "") =>
        LET r == last[1].ret.val
            n == last[1].args.limit
        IN /\ last[1].ret.tag = "list"
           /\ Len(r) <= n
           /\ Len(r) = Min(n, Cardinality(OwnIds))
           /\ \A i \in 1..Len(r) :
                 /\ r[i].id \in OwnIds
                 /\ r[i].title = reddit.posts[r[i].id].title
                 /\ \A j \in 1..Len(r) : i < j => r[i].id > r[j].id
                 /\ \A id \in OwnIds : id > r[i].id => \E j \in 1..Len(r) : r[j].id = id

C8_Witness ==
    /\ Len(last) = 1
    /\ last[1].op = "get_recent_posts"
    /\ last[1].raised = ""
    /\ last[1].args.limit = 1
    /\ Len(last[1].ret.val) = 1
    /\ Cardinality(OwnIds) = 2

SubmissionCalls(o) == SelectSeq(o.calls, LAMBDA c : c.m \in {"submit", "submit_image"})

ExpectedSubmission(a) ==
    IF a.post_type = "text" THEN Call("submit", <<a.title, "selftext", a.content>>, 0)
    ELSE IF a.post_type = "link" THEN Call("submit", <<a.title, "url", a.content>>, 0)
    ELSE Call("submit_image", <<a.title, "image_path", a.content>>, 0)

CreatedIs(o) ==
    /\ o.ret.val = reddit.next - 1
    /\ o.ret.val \in DOMAIN reddit.posts
    /\ LET post == reddit.posts[o.ret.val]
       IN /\ post.title = o.args.title
          /\ post.author = Me
          /\ post.selftext = (IF o.args.post_type = "text" THEN o.args.content ELSE "")
          /\ (o.args.post_type = "link") => post.url = o.args.content
          /\ post.image = (IF o.args.post_type = "image" THEN o.args.content ELSE "")

\* C9 (as claimed): every create_post with a valid post type makes exactly
\* one submission call, the one of its kind, and on success returns the id
\* of the post it created.
C9_ExactlyOneSubmission ==
    (Len(last) = 1 /\ last[1].op = "create_post" /\ last[1].args.post_type \in ValidTypes) =>
        /\ SubmissionCalls(last[1]) = <<ExpectedSubmission(last[1].args)>>
        /\ last[1].ret.tag = "id" => CreatedIs(last[1])

LookupRaised(o) == o.raised # "" /\ Len(o.calls) = 1 /\ o.calls[1].m = "subreddit"

\* C9 (amended): a create_post with a valid post type whose subreddit lookup
\* raised makes no submission call; every other one makes exactly one, the
\* one of its kind; on success the id returned is that of the post created.
C9_OneSubmissionAfterLookup ==
    (Len(last) = 1 /\ last[1].op = "create_post" /\ last[1].args.post_type \in ValidTypes) =>
        /\ SubmissionCalls(last[1]) =
              (IF LookupRaised(last[1]) THEN <<>> ELSE <<ExpectedSubmission(last[1].args)>>)
        /\ last[1].ret.tag = "id" => CreatedIs(last[1])

C9_Witness ==
    /\ Len(last) = 1
    /\ last[1].op = "create_post"
    /\ last[1].args.post_type = "image"
    /\ last[1].ret.tag = "id"
    /\ last[1].ret.val = 3
    /\ Len(SubmissionCalls(last[1])) = 1

InitError == Widget("error", "Failed to initialize RedditManager")

\* C4 (as claimed): when the constructor fails at startup the script reports
\* the error once and renders nothing after it, and the execution makes no
\* facade call.
C4_StopsAtStartup ==
    (ui.ran /\ ui.init = "raised") =>
        /\ ui.rendered = <<InitError>>
        /\ last = <<>>

\* C5 (as claimed): the execution that handles a button click makes exactly
\* one facade call (stated here for the executions whose manager was
\* constructed).
C5_OneCallPerAction == (ui.ran /\ ui.init = "ok" /\ ui.action # "") => Len(last) = 1

Ops(trace) == [i \in 1..Len(trace) |-> trace[i].op]

\* C5 (amended): the execution that handles Create Post makes exactly one
\* facade call, create_post (none when the manager was never constructed:
\* the name is undefined); the one that handles Fetch Post makes two,
\* get_recent_posts then read_post; Delete Post two, get_recent_posts then
\* delete_post; Update Post makes get_recent_posts, update_post and, exactly
\* when update_post returned True, read_post.
C5_CallsPerAction ==
    ui.ran =>
        /\ ui.action = "Create Post" =>
              IF ui.init = "ok" THEN Ops(last) = <<"create_post">>
              ELSE Ops(last) = <<>> /\ ui.exc = "NameError"
        /\ ui.action = "Fetch Post" => Ops(last) = <<"get_recent_posts", "read_post">>
        /\ ui.action = "Delete Post" => Ops(last) = <<"get_recent_posts", "delete_post">>
        /\ ui.action = "Update Post" =>
              /\ Len(last) >= 2
              /\ Ops(last) = (IF Truthy(last[2].ret)
                              THEN <<"get_recent_posts", "update_post", "read_post">>
                              ELSE <<"get_recent_posts", "update_post">>)

C5_Witness ==
    /\ ui.ran
    /\ ui.action = "Update Post"
    /\ Len(last) = 3
    /\ last[3].op = "read_post"
    /\ last[3].ret.tag = "dict"

FailureMessage(op) ==
    IF op = "create_post" THEN Widget("error", "Failed to create the post.")
    ELSE IF op = "read_post" THEN Widget("error", "Failed to fetch the post.")
    ELSE IF op = "update_post" THEN Widget("error", "Failed to update the post.")
    ELSE IF op = "delete_post" THEN Widget("error", "Failed to delete the post.")
    ELSE Widget("warning", "No recent posts found.")

\* C6 (as claimed): whenever a facade call of an execution returned its
\* no-result value, the execution rendered a message for it and finished
\* without an uncaught exception.
C6_NoResultRendered ==
    ui.ran =>
        \A i \in 1..Len(last) :
            Same(last[i].ret, NoResult(last[i].op)) =>
                /\ FailureMessage(last[i].op) \in Range(ui.rendered)
                /\ ui.exc = ""

\* C10: the id get_recent_posts_dropdown returns is the id of an entry of the
\* list get_recent_posts returned whose title is the selected one, and no
\* later entry of the list carries that title: of the posts sharing a title
\* only the last listed (the oldest) can be selected.
C10_LastOfTitle ==
    (ui.ran /\ ui.dropdown.shown) =>
        LET L == ui.dropdown.listing
        IN /\ Len(last) >= 1
           /\ last[1].op = "get_recent_posts"
           /\ L = last[1].ret.val
           /\ ui.dropdown.post_id.tag = "id"
           /\ \E i \in 1..Len(L) :
                 /\ L[i].title = ui.dropdown.selected
                 /\ L[i].id = ui.dropdown.post_id.val
                 /\ \A j \in 1..Len(L) : j > i => L[j].title # ui.dropdown.selected

C10_Witness ==
    /\ ui.ran
    /\ ui.dropdown.shown
    /\ Len(ui.dropdown.listing) = 2
    /\ ui.dropdown.listing[1].title = ui.dropdown.listing[2].title
    /\ ui.dropdown.post_id.val = ui.dropdown.listing[2].id
    /\ ui.action = "Delete Post"

====
